---- MODULE Spec2Model ----
(***************************************************************************)
(* Model of the static file server in src/main.rs: the router built in     *)
(* main, the logging middleware extract_req_res_info and the file          *)
(* responder static_path_handler, together with the file system they read. *)
(*                                                                         *)
(* Text is modelled as the sequence of its bytes (47 is '/', 46 is '.',    *)
(* 95 is '_', 37 is '%').  An optional value is a sequence of length at    *)
(* most one: <<>> is None and <<x>> is Some(x).                            *)
(***************************************************************************)
EXTENDS Integers, Sequences, FiniteSets, TLC

\* ------------------------------------------------------------------ bounds
\* Longest request path, after its leading '/', drawn from PathAlphabet.
MaxLen == 4
\* Number of requests that may be in flight at the same time.
NumReq == 2
\* Number of files the environment may delete while the server runs.
MaxDeletes == 1

\* ------------------------------------------------------- program constants
Slash == 47
DefaultPort == 3000
PlaceholderStatus == 200
IndexHtml == <<105,110,100,101,120,46,104,116,109,108>>

\* ------------------------------------------------------------- byte strings
Dot == <<46>>
DotDot == <<46,46>>
Underscore == <<95>>
StyleCss == <<115,116,121,108,101,46,99,115,115>>
Notes == <<110,111,116,101,115>>
UpperCss == <<65,46,67,83,83>>
MissingTxt == <<109,105,115,115,105,110,103,46,116,120,116>>
W == <<119>>

Reqs == 1..NumReq

\* All sequences over S of length at most n.
SeqsUpTo(S, n) == UNION {[1..k -> S] : k \in 0..n}

\* ------------------------------------------------------------ pure helpers
RECURSIVE Flatten(_)
\* hyper::body::to_bytes: the chunks of a body stream, concatenated.
Flatten(chunks) ==
    IF chunks = <<>> THEN <<>> ELSE Head(chunks) \o Flatten(Tail(chunks))

IsCont(b) == b >= 128 /\ b <= 191

RECURSIVE Utf8Valid(_)
\* std::str::from_utf8 succeeds on exactly the well-formed UTF-8 sequences.
Utf8Valid(b) ==
    IF b = <<>> THEN TRUE
    ELSE LET n == Len(b)
             b1 == b[1]
             rest(k) == SubSeq(b, k + 1, n)
         IN  IF b1 < 128 THEN Utf8Valid(rest(1))
             ELSE IF b1 >= 194 /\ b1 <= 223
                  THEN n >= 2 /\ IsCont(b[2]) /\ Utf8Valid(rest(2))
             ELSE IF b1 >= 224 /\ b1 <= 239
                  THEN /\ n >= 3
                       /\ IsCont(b[2]) /\ IsCont(b[3])
                       /\ (b1 = 224 => b[2] >= 160)
                       /\ (b1 = 237 => b[2] <= 159)
                       /\ Utf8Valid(rest(3))
             ELSE IF b1 >= 240 /\ b1 <= 244
                  THEN /\ n >= 4
                       /\ IsCont(b[2]) /\ IsCont(b[3]) /\ IsCont(b[4])
                       /\ (b1 = 240 => b[2] >= 144)
                       /\ (b1 = 244 => b[2] <= 143)
                       /\ Utf8Valid(rest(4))
             ELSE FALSE

IsHex(c) == (c >= 48 /\ c <= 57) \/ (c >= 65 /\ c <= 70) \/ (c >= 97 /\ c <= 102)

HexVal(c) == IF c <= 57 THEN c - 48 ELSE IF c <= 70 THEN c - 55 ELSE c - 87

RECURSIVE PercentDecode(_)
\* percent_encoding::percent_decode: %XY with two hex digits is one byte,
\* anything else is copied.
PercentDecode(s) ==
    IF s = <<>> THEN <<>>
    ELSE IF s[1] = 37 /\ Len(s) >= 3 /\ IsHex(s[2]) /\ IsHex(s[3])
         THEN <<16 * HexVal(s[2]) + HexVal(s[3])>> \o PercentDecode(SubSeq(s, 4, Len(s)))
         ELSE <<s[1]>> \o PercentDecode(Tail(s))

\* The Path<String> extractor: the captured segment, percent-decoded, or
\* None when the decoded bytes are not UTF-8.
ExtractPath(raw) ==
    LET d == PercentDecode(raw) IN IF Utf8Valid(d) THEN <<d>> ELSE <<>>

\* Number of '/' bytes at the start of s.
LeadingSlashes(s) ==
    CHOOSE k \in 0..Len(s) :
        /\ \A j \in 1..k : s[j] = Slash
        /\ (k < Len(s) => s[k + 1] # Slash)

\* str::strip_prefix('/') in place of the trim: one '/' removed at most.
StripOneSlash(s) == IF s # <<>> /\ s[1] = Slash THEN Tail(s) ELSE s

RECURSIVE trim_start_matches(_)
\* str::trim_start_matches('/'): removes every leading '/'.
trim_start_matches(s) ==
    IF s # <<>> /\ s[1] = Slash THEN trim_start_matches(Tail(s)) ELSE s

\* Lines 39-42: the relative path the handler serves.
ResolvePath(seg) ==
    LET p == trim_start_matches(seg) IN IF p = <<>> THEN IndexHtml ELSE p

RECURSIVE SplitSlash(_)
\* s split at every '/', empty pieces kept.
SplitSlash(s) ==
    IF \A j \in 1..Len(s) : s[j] # Slash THEN <<s>>
    ELSE LET k == CHOOSE j \in 1..Len(s) :
                      s[j] = Slash /\ \A m \in 1..(j - 1) : s[m] # Slash
         IN  <<SubSeq(s, 1, k - 1)>> \o SplitSlash(SubSeq(s, k + 1, Len(s)))

\* std::path::Path::file_name: the last component, unless it is "..";
\* empty components and "." are not components.
FileName(p) ==
    LET comps == SelectSeq(SplitSlash(p), LAMBDA c : c # <<>> /\ c # Dot)
    IN  IF comps = <<>> \/ comps[Len(comps)] = DotDot THEN <<>>
        ELSE <<comps[Len(comps)]>>

\* std::path::Path::extension: what follows the last '.' of the file name,
\* None when there is no '.' or nothing before it.
Extension(p) ==
    LET fn == FileName(p) IN
    IF fn = <<>> THEN <<>>
    ELSE LET name == fn[1]
             dots == {j \in 1..Len(name) : name[j] = 46}
         IN  IF dots = {} THEN <<>>
             ELSE LET k == CHOOSE j \in dots : \A m \in dots : m <= j
                  IN  IF k = 1 THEN <<>> ELSE <<SubSeq(name, k + 1, Len(name))>>

ToLower(s) == [j \in 1..Len(s) |-> IF s[j] >= 65 /\ s[j] <= 90 THEN s[j] + 32 ELSE s[j]]

\* The entries of mime_guess's extension table that the model's files use.
MimeTable(ext) ==
    CASE ext = <<104,116,109,108>> -> <<"text/html">>
      [] ext = <<104,116,109>>     -> <<"text/html">>
      [] ext = <<99,115,115>>      -> <<"text/css">>
      [] ext = <<116,120,116>>     -> <<"text/plain">>
      [] OTHER                     -> <<>>

MimeAlwaysPlain(p) == "text/plain"

\* Line 44: mime_guess::from_path(path).first_or_text_plain().
MimeGuess(p) ==
    LET e == Extension(p)
        m == IF e = <<>> THEN <<>> ELSE MimeTable(ToLower(e[1]))
    IN  IF m = <<>> THEN "text/plain" ELSE m[1]

\* std::path::Path::join: an absolute argument replaces the base.
PathJoin(base, p) ==
    IF p # <<>> /\ p[1] = Slash THEN p
    ELSE IF base # <<>> /\ base[Len(base)] = Slash THEN base \o p
    ELSE base \o <<Slash>> \o p

\* ------------------------------------------------------------- file system
\* A location is the sequence of names from the file system's root.  The
\* served directory is /w; /_ is a file outside it.
RootLoc == <<W>>

World ==
    ( <<>>                  :> [kind |-> "dir",  content |-> <<>>] ) @@
    ( <<W>>                 :> [kind |-> "dir",  content |-> <<>>] ) @@
    ( <<W, IndexHtml>>      :> [kind |-> "file", content |-> <<60,104,49,62,104,105,60,47,104,49,62>>] ) @@
    ( <<W, StyleCss>>       :> [kind |-> "file", content |-> <<98,111,100,121,123,125>>] ) @@
    ( <<W, UpperCss>>       :> [kind |-> "file", content |-> <<97,123,125>>] ) @@
    ( <<W, Notes>>          :> [kind |-> "file", content |-> <<110,111,116,101>>] ) @@
    ( <<W, Underscore>>     :> [kind |-> "dir",  content |-> <<>>] ) @@
    ( <<W, Underscore, Underscore>> :> [kind |-> "file", content |-> <<117>>] ) @@
    ( <<Underscore>>        :> [kind |-> "file", content |-> <<115,101,99,114,101,116>>] )

Present(loc, del) == loc \in DOMAIN World /\ loc \notin del

Parent(loc) == IF loc = <<>> THEN <<>> ELSE SubSeq(loc, 1, Len(loc) - 1)

RECURSIVE Walk(_, _, _)
\* Path resolution as the operating system does it: every component is
\* looked up in the directory reached so far.
Walk(loc, comps, del) ==
    IF comps = <<>> THEN <<loc>>
    ELSE IF World[loc].kind # "dir" THEN <<>>
    ELSE LET c == Head(comps) IN
         IF c = <<>> \/ c = Dot THEN Walk(loc, Tail(comps), del)
         ELSE IF c = DotDot THEN Walk(Parent(loc), Tail(comps), del)
         ELSE IF Present(loc \o <<c>>, del) THEN Walk(loc \o <<c>>, Tail(comps), del)
         ELSE <<>>

\* The location an absolute path names, or None.
Lookup(p, del) == Walk(<<>>, SplitSlash(p), del)

\* Line 48: Path::exists.
Exists(p, del) == Lookup(p, del) # <<>>

\* Line 54: fs::read; fails on a missing path and on a directory.
FsRead(p, del) ==
    LET l == Lookup(p, del) IN
    IF l = <<>> \/ World[l[1]].kind # "file"
    THEN [ok |-> FALSE, bytes |-> <<>>]
    ELSE [ok |-> TRUE, bytes |-> World[l[1]].content]

IsPrefix(a, b) == Len(a) <= Len(b) /\ SubSeq(b, 1, Len(a)) = a

DeletableFiles ==
    {l \in DOMAIN World : World[l].kind = "file" /\ IsPrefix(RootLoc, l)}

\* ----------------------------------------------------------------- inputs
PathAlphabet == {47, 46, 95}

\* Request paths: '/' followed by up to MaxLen bytes of PathAlphabet.
BroadUris == {<<Slash>> \o t : t \in SeqsUpTo(PathAlphabet, MaxLen)}

NamedUris ==
    { <<Slash>>,                                     \* /
      <<Slash>> \o IndexHtml,                        \* /index.html
      <<Slash>> \o StyleCss,                         \* /style.css
      <<Slash>> \o MissingTxt,                       \* /missing.txt
      <<Slash>> \o Notes,                            \* /notes
      <<Slash>> \o UpperCss,                         \* /A.CSS
      <<Slash, Slash, Slash>> \o StyleCss,           \* ///style.css
      <<47,37,50,70>> \o IndexHtml,                  \* /%2Findex.html
      <<47,37,50,101,37,50,101,47,95>>,              \* /%2e%2e/_
      <<47,37,70,70>>,                               \* /%FF
      <<47,95>> }                                    \* /_  (a directory)

Methods == {"GET", "HEAD", "POST"}

\* Request bodies as the chunks the connection delivers them in.
Bodies ==
    { <<>>,
      << <<97>> >>,
      << <<97>>, <<98,99>> >>,
      << <<195>>, <<169>> >>,                        \* one character in two chunks
      << <<255>> >>,                                 \* not UTF-8
      << <<97>>, <<195>> >> }                        \* truncated character

Mk(m, u, b) == [method |-> m, uri |-> u, body |-> b]

BroadInputs ==
    {Mk("GET", u, <<>>) : u \in BroadUris}
        \cup {Mk(m, u, b) : m \in Methods, u \in NamedUris, b \in Bodies}

ConcInputs ==
    { Mk("GET", <<Slash>>, <<>>),
      Mk("GET", <<Slash>> \o IndexHtml, << <<97>>, <<98,99>> >>),
      Mk("GET", <<47,95>>, <<>>),
      Mk("POST", <<Slash>> \o StyleCss, << <<255>> >>),
      Mk("POST", <<Slash>> \o StyleCss, << <<97>> >>),
      Mk("GET", <<Slash>> \o MissingTxt, <<>>) }

\* ------------------------------------------------------------------- state
VARIABLES
    app_setting,   \* the shared Arc<AppSetting>
    deleted,       \* locations removed from the file system so far
    pc,            \* pc[i]: where request i's task is
    req,           \* req[i]: the inbound request
    target,        \* target[i]: the service the router dispatches to
    access_log,    \* access_log[i]: the middleware's AccessLog value
    fwd,           \* fwd[i]: the request handed to next.run
    seg,           \* seg[i]: the handler's Path(path) argument
    path,          \* path[i]: the handler's local `path`
    mime_type,     \* mime_type[i]: the handler's local `mime_type`
    file_path,     \* file_path[i]: the handler's local `file_path`
    res,           \* res[i]: the response next.run returned
    sent,          \* sent[i]: the response written to the client
    logs           \* logs[i]: the records request i's task emitted

vars == <<app_setting, deleted, pc, req, target, access_log, fwd, seg, path,
          mime_type, file_path, res, sent, logs>>

handlerVars == <<seg, path, mime_type, file_path>>

\* Lines 29-36 and 109-112: the parsed command line.
AppSetting == [static_dir |-> <<47,119>>, port |-> DefaultPort]

NoRequest == [method |-> "", uri |-> <<>>, body |-> <<>>]
NoResponse == [status |-> 0, headers |-> {}, body |-> <<>>]
NoLog == [uri |-> <<>>, method |-> "", req_body |-> <<>>, status_code |-> 0]

Init ==
    /\ app_setting = AppSetting
    /\ deleted = {}
    /\ pc = [i \in Reqs |-> "idle"]
    /\ req = [i \in Reqs |-> NoRequest]
    /\ target = [i \in Reqs |-> ""]
    /\ access_log = [i \in Reqs |-> NoLog]
    /\ fwd = [i \in Reqs |-> NoRequest]
    /\ seg = [i \in Reqs |-> <<>>]
    /\ path = [i \in Reqs |-> <<>>]
    /\ mime_type = [i \in Reqs |-> ""]
    /\ file_path = [i \in Reqs |-> <<>>]
    /\ res = [i \in Reqs |-> NoResponse]
    /\ sent = [i \in Reqs |-> NoResponse]
    /\ logs = [i \in Reqs |-> <<>>]

\* --------------------------------------------------------------- responses
NotFoundWithType ==
    [status |-> 404, headers |-> {<<"content-type", "text/plain">>}, body |-> <<>>]

NotFoundAsForbidden == [status |-> 403, headers |-> {}, body |-> <<>>]

\* Lines 49-52.
NotFoundResponse == [status |-> 404, headers |-> {}, body |-> <<>>]

\* Lines 55-62.
OkResponse(mime, content) ==
    [status |-> 200, headers |-> {<<"content-type", mime>>}, body |-> content]

\* The router's answer when no route matches the path.
FallbackResponse == [status |-> 404, headers |-> {}, body |-> <<>>]

\* get(..) answering a method it has no handler for.
MethodNotAllowedResponse == [status |-> 405, headers |-> {}, body |-> <<>>]

\* The Path extractor's rejection of a segment that is not UTF-8.
PathRejection ==
    [status |-> 400,
     headers |-> {<<"content-type", "text/plain; charset=utf-8">>},
     body |-> <<73,110,118,97,108,105,100,32,85,82,76,58,32,73,110,118,97,108,
                105,100,32,85,84,70,45,56,32,105,110,32,96,112,97,116,104,96>>]

\* ------------------------------------------------------------------ router
\* Line 115: the route "/*path" matches every path with something after
\* the first '/', and get(..) accepts GET and HEAD.
RouteMatch(m, u) ==
    IF Len(u) <= 1 THEN "fallback"
    ELSE IF m \in {"GET", "HEAD"} THEN "handler"
    ELSE "method_not_allowed"

\* The segment "*path" captures: the path without its first '/'.
Captured(u) == Tail(u)

\* What the connection writes for the response the route produced.
Written(m, t, r) ==
    [status |-> r.status,
     headers |-> r.headers \cup
                 (IF t = "method_not_allowed" THEN {<<"allow", "GET,HEAD">>} ELSE {}),
     body |-> IF m = "HEAD" THEN <<>> ELSE r.body]

\* ----------------------------------------------------------------- actions
PanicAbortsAll(pcs, i) ==
    [j \in Reqs |-> IF pcs[j] \in {"idle", "done"} THEN pcs[j] ELSE "panicked"]

\* An unwrap() that fails unwinds the task of request i.
Panic(pcs, i) == [pcs EXCEPT ![i] = "panicked"]

\* A request arrives and the router picks the service for it.
Arrive(i, r) ==
    /\ pc[i] = "idle"
    /\ req' = [req EXCEPT ![i] = r]
    /\ target' = [target EXCEPT ![i] = RouteMatch(r.method, r.uri)]
    /\ pc' = [pc EXCEPT ![i] = "mw"]
    /\ UNCHANGED <<app_setting, deleted, access_log, fwd, handlerVars, res, sent, logs>>

ForwardDrained(r, bytes) == [method |-> r.method, uri |-> r.uri, body |-> <<>>]

\* Line 80: Request::from_parts(parts, Body::from(req_body_bytes)).
Forwarded(r, bytes) ==
    [method |-> r.method, uri |-> r.uri,
     body |-> IF bytes = <<>> THEN <<>> ELSE <<bytes>>]

\* Lines 74-79.
NewAccessLog(u, m, b) ==
    [uri |-> u, method |-> m, req_body |-> b, status_code |-> PlaceholderStatus]

\* Lines 68-80: extract_req_res_info up to next.run.
ExtractBefore(i) ==
    /\ pc[i] = "mw"
    /\ LET req_body_bytes == Flatten(req[i].body) IN
       IF ~Utf8Valid(req_body_bytes)
       THEN /\ pc' = Panic(pc, i)
            /\ UNCHANGED <<access_log, fwd>>
       ELSE /\ access_log' = [access_log EXCEPT ![i] =
                                 NewAccessLog(req[i].uri, req[i].method, req_body_bytes)]
            /\ fwd' = [fwd EXCEPT ![i] = Forwarded(req[i], req_body_bytes)]
            /\ pc' = [pc EXCEPT ![i] = "next"]
    /\ UNCHANGED <<app_setting, deleted, req, target, handlerVars, res, sent, logs>>

\* next.run when no route matched.
RunFallback(i) ==
    /\ pc[i] = "next" /\ target[i] = "fallback"
    /\ res' = [res EXCEPT ![i] = FallbackResponse]
    /\ pc' = [pc EXCEPT ![i] = "post"]
    /\ UNCHANGED <<app_setting, deleted, req, target, access_log, fwd, handlerVars, sent, logs>>

\* next.run when the route has no handler for the method.
RunMethodNotAllowed(i) ==
    /\ pc[i] = "next" /\ target[i] = "method_not_allowed"
    /\ res' = [res EXCEPT ![i] = MethodNotAllowedResponse]
    /\ pc' = [pc EXCEPT ![i] = "post"]
    /\ UNCHANGED <<app_setting, deleted, req, target, access_log, fwd, handlerVars, sent, logs>>

\* Lines 38-52: static_path_handler up to the outcome of exists().
HandlerCheck(i) ==
    /\ pc[i] = "next" /\ target[i] = "handler"
    /\ LET e == ExtractPath(Captured(fwd[i].uri)) IN
       IF e = <<>>
       THEN /\ res' = [res EXCEPT ![i] = PathRejection]
            /\ pc' = [pc EXCEPT ![i] = "post"]
            /\ UNCHANGED handlerVars
       ELSE LET p == ResolvePath(e[1])
                fp == PathJoin(app_setting.static_dir, p)
            IN  /\ seg' = [seg EXCEPT ![i] = e[1]]
                /\ path' = [path EXCEPT ![i] = p]
                /\ mime_type' = [mime_type EXCEPT ![i] = MimeGuess(p)]
                /\ file_path' = [file_path EXCEPT ![i] = fp]
                /\ IF Exists(fp, deleted)
                   THEN /\ pc' = [pc EXCEPT ![i] = "reading"]
                        /\ UNCHANGED res
                   ELSE /\ res' = [res EXCEPT ![i] = NotFoundResponse]
                        /\ pc' = [pc EXCEPT ![i] = "post"]
    /\ UNCHANGED <<app_setting, deleted, req, target, access_log, fwd, sent, logs>>

\* Lines 53-63: the read and the 200 response.
HandlerRead(i) ==
    /\ pc[i] = "reading"
    /\ LET file_content == FsRead(file_path[i], deleted) IN
       IF file_content.ok
       THEN /\ res' = [res EXCEPT ![i] = OkResponse(mime_type[i], file_content.bytes)]
            /\ pc' = [pc EXCEPT ![i] = "post"]
       ELSE /\ pc' = Panic(pc, i)
            /\ UNCHANGED res
    /\ UNCHANGED <<app_setting, deleted, req, target, access_log, fwd, handlerVars, sent, logs>>

KeepPlaceholder(log, r) == log

\* Lines 82-83.
WithStatus(log, r) == [log EXCEPT !.status_code = r.status]

\* Lines 82-87: extract_req_res_info after next.run.
ExtractAfter(i) ==
    /\ pc[i] = "post"
    /\ access_log' = [access_log EXCEPT ![i] = WithStatus(access_log[i], res[i])]
    /\ logs' = [logs EXCEPT ![i] = Append(logs[i], WithStatus(access_log[i], res[i]))]
    /\ pc' = [pc EXCEPT ![i] = "send"]
    /\ UNCHANGED <<app_setting, deleted, req, target, fwd, handlerVars, res, sent>>

\* The response leaves the server.
Respond(i) ==
    /\ pc[i] = "send"
    /\ sent' = [sent EXCEPT ![i] = Written(req[i].method, target[i], res[i])]
    /\ pc' = [pc EXCEPT ![i] = "done"]
    /\ UNCHANGED <<app_setting, deleted, req, target, access_log, fwd, handlerVars, res, logs>>

\* Another process removes a file of the served directory.
DeleteFile ==
    /\ Cardinality(deleted) < MaxDeletes
    /\ \E l \in DeletableFiles \ deleted : deleted' = deleted \cup {l}
    /\ UNCHANGED <<app_setting, pc, req, target, access_log, fwd, handlerVars, res, sent, logs>>

ArriveOne == \E r \in BroadInputs : Arrive(1, r)
ArriveAny == \E i \in Reqs : \E r \in ConcInputs : Arrive(i, r)
DoExtractBefore == \E i \in Reqs : ExtractBefore(i)
DoRunFallback == \E i \in Reqs : RunFallback(i)
DoRunMethodNotAllowed == \E i \in Reqs : RunMethodNotAllowed(i)
DoHandlerCheck == \E i \in Reqs : HandlerCheck(i)
DoHandlerRead == \E i \in Reqs : HandlerRead(i)
DoExtractAfter == \E i \in Reqs : ExtractAfter(i)
DoRespond == \E i \in Reqs : Respond(i)

\* One request at a time, over the whole input space.
Next ==
    \/ ArriveOne
    \/ DoExtractBefore
    \/ DoRunFallback
    \/ DoRunMethodNotAllowed
    \/ DoHandlerCheck
    \/ DoHandlerRead
    \/ DoExtractAfter
    \/ DoRespond
    \/ DeleteFile

Spec == Init /\ [][Next]_vars

\* NumReq requests in flight together.
NextConc ==
    \/ ArriveAny
    \/ DoExtractBefore
    \/ DoRunFallback
    \/ DoRunMethodNotAllowed
    \/ DoHandlerCheck
    \/ DoHandlerRead
    \/ DoExtractAfter
    \/ DoRespond
    \/ DeleteFile

SpecConc == Init /\ [][NextConc]_vars

TypeOK ==
    /\ app_setting = AppSetting
    /\ \A i \in Reqs :
         pc[i] \in {"idle", "mw", "next", "reading", "post", "send", "done", "panicked"}

\* ------------------------------------------------------------- properties
\* The handler of request i got as far as building file_path (line 46).
HandlerRan(i) == file_path[i] # <<>>

\* next.run has returned to the middleware of request i.
Returned(i) == pc[i] \in {"post", "send", "done"}

\* The type each file of the served directory is expected to be sent with.
DeclaredType(loc) ==
    CASE loc = <<W, IndexHtml>> -> "text/html"
      [] loc = <<W, StyleCss>>  -> "text/css"
      [] loc = <<W, UpperCss>>  -> "text/css"
      [] OTHER                  -> "text/plain"

\* C1: when the file that the request path resolves to under the root does
\* not exist, the handler answers 404 with an empty body and no
\* Content-Type header, whatever the path is.
C1_MissingFileIs404 ==
    \A i \in Reqs :
        (HandlerRan(i) /\ Lookup(file_path[i], {}) = <<>>)
            => /\ pc[i] \notin {"reading", "panicked"}
               /\ Returned(i) => res[i] = [status |-> 404, headers |-> {}, body |-> <<>>]

C1_Witness ==
    \E i \in Reqs :
        /\ pc[i] = "done" /\ HandlerRan(i)
        /\ Lookup(file_path[i], {}) = <<>>
        /\ \E j \in 1..Len(path[i]) : path[i][j] = 46

\* C2: a request whose path resolves to an existing regular file under the
\* root is answered 200 with the file's bytes as the body and the type of
\* the file's extension as Content-Type, text/plain when the extension is
\* unknown or missing.
C2_ExistingFileIs200 ==
    \A i \in Reqs :
        (HandlerRan(i) /\ Returned(i)) =>
            LET l == Lookup(file_path[i], deleted) IN
            (l # <<>> /\ World[l[1]].kind = "file" /\ IsPrefix(RootLoc, l[1])) =>
                res[i] = [status |-> 200,
                          headers |-> {<<"content-type", DeclaredType(l[1])>>},
                          body |-> World[l[1]].content]

C2_Witness ==
    \E i \in Reqs :
        /\ pc[i] = "done" /\ HandlerRan(i)
        /\ Lookup(file_path[i], deleted) = << <<W, UpperCss>> >>
        /\ res[i].status = 200

\* C3: a GET of / and a GET of /index.html, with index.html present, are
\* answered with the same status, headers and body.
C3_RootSameAsIndex ==
    \A i, j \in Reqs :
        ( /\ pc[i] = "done" /\ pc[j] = "done"
          /\ req[i].method = "GET" /\ req[i].uri = <<Slash>>
          /\ req[j].method = "GET" /\ req[j].uri = <<Slash>> \o IndexHtml
          /\ <<W, IndexHtml>> \notin deleted )
            => sent[i] = sent[j]

\* C4: every request, also one whose body or file cannot be read, has
\* exactly one access log record emitted for it once its handling is over.
C4_ExactlyOneLog ==
    \A i \in Reqs : pc[i] \in {"done", "panicked"} => Len(logs[i]) = 1

\* C5: an emitted access log record carries the status of the response the
\* middleware returns for that request, never a stale placeholder.
C5_LoggedStatusIsResponseStatus ==
    \A i \in Reqs :
        \A k \in 1..Len(logs[i]) :
            /\ logs[i][k].status_code = res[i].status
            /\ pc[i] = "done" => logs[i][k].status_code = sent[i].status

C5_Witness ==
    \E i \in Reqs :
        /\ pc[i] = "done" /\ Len(logs[i]) = 1
        /\ logs[i][1].status_code = 404
        /\ sent[i].status = 404

\* C6: the request handed to the downstream handler has the inbound
\* request's method and URI and a body with exactly the inbound bytes.
C6_ForwardedRequestIntact ==
    \A i \in Reqs :
        pc[i] \in {"next", "reading", "post", "send", "done"} =>
            /\ fwd[i].method = req[i].method
            /\ fwd[i].uri = req[i].uri
            /\ Flatten(fwd[i].body) = Flatten(req[i].body)

C6_Witness ==
    \E i \in Reqs :
        /\ pc[i] = "next"
        /\ Len(req[i].body) = 2
        /\ Flatten(fwd[i].body) = <<195, 169>>

\* C7: the file the handler reads is always inside the configured root.
C7_ReadsStayInsideRoot ==
    \A i \in Reqs :
        (HandlerRan(i) /\ Returned(i) /\ res[i].status = 200) =>
            LET l == Lookup(file_path[i], {}) IN
            l # <<>> /\ IsPrefix(RootLoc, l[1])

\* C8 as stated: every response sent has status 200 or 404.
C8_Only200Or404 ==
    \A i \in Reqs : pc[i] = "done" => sent[i].status \in {200, 404}

\* C8 amended: every response sent has status 200, 404, 405 or 400; 405
\* exactly when the path matches the route and the method is neither GET
\* nor HEAD, 400 exactly when a GET or HEAD has a matched path that does
\* not percent-decode to UTF-8, and 200 or 404 otherwise.
C8_StatusByMethodAndPath ==
    \A i \in Reqs :
        pc[i] = "done" =>
            LET s == sent[i].status
                routed == Len(req[i].uri) > 1
                getlike == req[i].method \in {"GET", "HEAD"}
                bad == ~Utf8Valid(PercentDecode(Tail(req[i].uri)))
            IN  /\ s \in {200, 400, 404, 405}
                /\ (s = 405) <=> (routed /\ ~getlike)
                /\ (s = 400) <=> (routed /\ getlike /\ bad)

C8_Witness ==
    \E i \in Reqs :
        pc[i] = "done" /\ sent[i].status = 405 /\ req[i].method = "POST"

\* The response request r gets when it is the only request and no file is
\* deleted.
Alone(r) ==
    LET t == RouteMatch(r.method, r.uri)
        e == ExtractPath(Captured(r.uri))
        p == ResolvePath(e[1])
        fp == PathJoin(AppSetting.static_dir, p)
        inner == IF t = "fallback" THEN FallbackResponse
                 ELSE IF t = "method_not_allowed" THEN MethodNotAllowedResponse
                 ELSE IF e = <<>> THEN PathRejection
                 ELSE IF Exists(fp, {}) THEN OkResponse(MimeGuess(p), FsRead(fp, {}).bytes)
                 ELSE NotFoundResponse
    IN  Written(r.method, t, inner)

\* Request r aborts or races by itself: its body is not UTF-8, or the path
\* it resolves to is a directory or a file that has been deleted.
OwnFault(r) ==
    \/ ~Utf8Valid(Flatten(r.body))
    \/ /\ RouteMatch(r.method, r.uri) = "handler"
       /\ ExtractPath(Captured(r.uri)) # <<>>
       /\ LET fp == PathJoin(AppSetting.static_dir,
                             ResolvePath(ExtractPath(Captured(r.uri))[1]))
              l == Lookup(fp, {})
          IN  l # <<>> /\ (World[l[1]].kind # "file" \/ l[1] \in deleted)

\* C9: a request that has no fault of its own is never aborted by another
\* request's fault, in any interleaving: it gets the response it would get
\* alone and its one log record, and the shared configuration never changes.
C9_FaultsAreLocal ==
    /\ app_setting = AppSetting
    /\ \A i \in Reqs :
         (pc[i] # "idle" /\ ~OwnFault(req[i])) =>
            /\ pc[i] # "panicked"
            /\ pc[i] = "done" =>
                  /\ sent[i] = Alone(req[i])
                  /\ Len(logs[i]) = 1
                  /\ logs[i][1].status_code = sent[i].status

C9_Witness ==
    \E i, j \in Reqs :
        /\ pc[i] = "panicked"
        /\ pc[j] = "send" /\ ~OwnFault(req[j])
        /\ res[j].status = 200

\* C10 as stated: exactly one leading '/' is stripped from the segment, the
\* other leading slashes stay, and index.html stands in only when nothing
\* follows that one slash.
C10_StripsOneSlash ==
    \A i \in Reqs :
        (HandlerRan(i) /\ LeadingSlashes(seg[i]) >= 1) =>
            path[i] = (IF Tail(seg[i]) = <<>> THEN IndexHtml ELSE Tail(seg[i]))

\* C10 amended: every leading '/' is stripped from the segment; index.html
\* stands in exactly when nothing is left, and the result is joined onto
\* the root.
C10_StripsAllSlashes ==
    \A i \in Reqs :
        HandlerRan(i) =>
            LET k == LeadingSlashes(seg[i]) IN
            /\ path[i] = (IF k = Len(seg[i]) THEN IndexHtml
                          ELSE SubSeq(seg[i], k + 1, Len(seg[i])))
            /\ file_path[i] = app_setting.static_dir \o <<Slash>> \o path[i]

C10_Witness ==
    \E i \in Reqs :
        /\ HandlerRan(i)
        /\ LeadingSlashes(seg[i]) = 2
        /\ Len(seg[i]) = 3
        /\ path[i] = <<95>>

====
